---- MODULE Spec2Model ----
(***************************************************************************)
(* In-memory task list service with a chat command interface (app.py).     *)
(*                                                                         *)
(* Python strings that the code inspects (titles, descriptions, chat text) *)
(* are sequences of one-character strings; opaque strings (due_date) are    *)
(* TLA+ strings.  List indices are 1-based here, so "not found" is 0 where  *)
(* the code returns -1.  uuid4() is a fresh number from a counter.          *)
(* created_at is the clock reading (the code's RFC3339 strings sort in the  *)
(* same order).  updated_at is written by the code but read by no          *)
(* operation, and is left out of the task records.                          *)
(***************************************************************************)
EXTENDS Integers, Sequences, FiniteSets, TLC

VARIABLES TASKS, NEXT_SHORT_ID, UNDO_BUFFERS, now, ticks, uuids, tokens, resp,
          pc, loc, lockOwner, restores, client

storeVars == <<TASKS, NEXT_SHORT_ID, UNDO_BUFFERS>>
\* the request threads: where each one is, its local variables, the thread that
\* holds TASKS_LOCK (0: none), and how many restores each token was answered 200
threadVars == <<pc, loc, lockOwner, restores>>
\* client: whether the translator is configured (line 40: None without an API key)
vars == <<TASKS, NEXT_SHORT_ID, UNDO_BUFFERS, now, ticks, uuids, tokens, resp, threadVars,
          client>>

---------------------------------------------------------------------------
(* Bounds of the model *)

\* task ids (uuid4) handed out in one run
MaxUuids == 3
\* undo tokens (uuid4) handed out in one run
MaxTokens == 2
\* clock advances in one run
MaxTicks == 1
\* request threads that run at the same time
NumThreads == 2
\* tasks in the store when a restore re-inserts an items payload
MaxTasks == 4

(* Program constants *)

UNDO_EXPIRY_SECONDS == 300
TITLE_MAX == 200

---------------------------------------------------------------------------
(* Strings *)

None == "None"

IsSpace(c) == c \in {" ", "\t"}

UpperCase == <<"A", "B", "C", "D", "E", "F", "G", "H", "I", "J", "K", "L", "M",
               "N", "O", "P", "Q", "R", "S", "T", "U", "V", "W", "X", "Y", "Z">>
LowerCase == <<"a", "b", "c", "d", "e", "f", "g", "h", "i", "j", "k", "l", "m",
               "n", "o", "p", "q", "r", "s", "t", "u", "v", "w", "x", "y", "z">>

\* str.lower() on one character
Lower(c) ==
  IF \E i \in 1..Len(UpperCase) : UpperCase[i] = c
  THEN LowerCase[CHOOSE i \in 1..Len(UpperCase) : UpperCase[i] = c]
  ELSE c

LowerStr(s) == [i \in 1..Len(s) |-> Lower(s[i])]

RECURSIVE LStrip(_)
LStrip(s) == IF s # <<>> /\ IsSpace(Head(s)) THEN LStrip(Tail(s)) ELSE s

RECURSIVE RStrip(_)
RStrip(s) ==
  IF s # <<>> /\ IsSpace(s[Len(s)]) THEN RStrip(SubSeq(s, 1, Len(s) - 1)) ELSE s

\* str.strip()
Strip(s) == RStrip(LStrip(s))

\* needle in hay
Contains(hay, needle) ==
  \E i \in 0..(Len(hay) - Len(needle)) : SubSeq(hay, i + 1, i + Len(needle)) = needle

---------------------------------------------------------------------------
(* Helpers of the store *)

\* the words parse_bool reads as true and as false
TrueWords  == {<<"1">>, <<"t", "r", "u", "e">>, <<"t">>, <<"y", "e", "s">>, <<"y">>}
FalseWords == {<<"0">>, <<"f", "a", "l", "s", "e">>, <<"f">>, <<"n", "o">>, <<"n">>}

\* a parse that takes every value it cannot read as true
parse_bool_lenient(value) ==
  IF value = <<>> THEN None
  ELSE IF LowerStr(Strip(value[1])) \in FalseWords THEN "False"
  ELSE "True"

\* parse_bool: a query parameter is <<>> when it is missing and <<s>> when its
\* value is s; the result is "True", "False" or None
parse_bool(value) ==
  IF value = <<>> THEN None
  ELSE LET v == LowerStr(Strip(value[1]))
       IN  IF v \in TrueWords THEN "True"
           ELSE IF v \in FalseWords THEN "False"
           ELSE None

\* a lookup by short id that falls back on the first task
find_short_or_first(tasks, short_id) ==
  IF \E i \in 1..Len(tasks) : tasks[i].short_id = short_id
  THEN CHOOSE i \in 1..Len(tasks) :
         /\ tasks[i].short_id = short_id
         /\ \A j \in 1..(i - 1) : tasks[j].short_id # short_id
  ELSE IF tasks = <<>> THEN 0 ELSE 1

RECURSIVE FirstIndex(_, _, _)
FirstIndex(seq, P(_), i) ==
  IF i > Len(seq) THEN 0
  ELSE IF P(seq[i]) THEN i
  ELSE FirstIndex(seq, P, i + 1)

find_task_index(tasks, task_id) ==
  LET Hit(t) == t.id = task_id IN FirstIndex(tasks, Hit, 1)

find_task_index_by_short(tasks, short_id) ==
  LET Hit(t) == t.short_id = short_id IN FirstIndex(tasks, Hit, 1)

Range(seq) == {seq[i] : i \in 1..Len(seq)}

LiveIds(tasks) == {tasks[i].id : i \in 1..Len(tasks)}

\* list.pop(idx), the list that is left
RemoveAt(seq, idx) == SubSeq(seq, 1, idx - 1) \o SubSeq(seq, idx + 1, Len(seq))

\* the task build_task returns when it reads next_short_id and draws uuid
build_task(title, description, due_date, next_short_id, uuid) ==
  [ id          |-> uuid,
    short_id    |-> next_short_id,
    title       |-> Strip(title),
    description |-> description,
    due_date    |-> due_date,
    completed   |-> FALSE,
    created_at  |-> now ]

\* list.sort(key=created_at): stable
RECURSIVE InsertByCreated(_, _)
InsertByCreated(sorted, t) ==
  IF sorted = <<>> THEN <<t>>
  ELSE IF sorted[Len(sorted)].created_at <= t.created_at THEN Append(sorted, t)
  ELSE Append(InsertByCreated(SubSeq(sorted, 1, Len(sorted) - 1), t), sorted[Len(sorted)])

RECURSIVE SortByCreated(_)
SortByCreated(tasks) ==
  IF tasks = <<>> THEN <<>>
  ELSE InsertByCreated(SortByCreated(SubSeq(tasks, 1, Len(tasks) - 1)), tasks[Len(tasks)])

\* list.sort(key=short_id) is stable: a task goes behind those with a short_id
\* no greater than its own
InsertByShort(sorted, t) ==
  LET k == Cardinality({i \in 1..Len(sorted) : sorted[i].short_id <= t.short_id})
  IN  SubSeq(sorted, 1, k) \o <<t>> \o SubSeq(sorted, k + 1, Len(sorted))

RECURSIVE SortByShort(_)
SortByShort(tasks) ==
  IF tasks = <<>> THEN <<>>
  ELSE InsertByShort(SortByShort(SubSeq(tasks, 1, Len(tasks) - 1)), tasks[Len(tasks)])

\* a renumbering that sorts and leaves the short ids as they are
renumber_sort_only(tasks) == SortByCreated(tasks)

\* renumber_short_ids: the list it leaves (the counter becomes its length + 1)
renumber_short_ids(tasks) ==
  LET sorted == SortByCreated(tasks)
  IN  [i \in 1..Len(sorted) |-> [sorted[i] EXCEPT !.short_id = i]]

---------------------------------------------------------------------------
(* Regular expressions of the chat handler, over sequences of characters *)

\* \w, for the characters that occur in the requests of this model
IsWordChar(c) == c \notin {" ", "\t", ",", "-", ":", "#", ".", "!", "?", "'", "\""}

IsDigit(c) == c \in {"0", "1", "2", "3", "4", "5", "6", "7", "8", "9"}

DigitVal(c) ==
  CASE c = "0" -> 0 [] c = "1" -> 1 [] c = "2" -> 2 [] c = "3" -> 3 [] c = "4" -> 4
    [] c = "5" -> 5 [] c = "6" -> 6 [] c = "7" -> 7 [] c = "8" -> 8 [] c = "9" -> 9

\* int(s) of a run of digits
RECURSIVE ToInt(_)
ToInt(s) == IF s = <<>> THEN 0 ELSE 10 * ToInt(SubSeq(s, 1, Len(s) - 1)) + DigitVal(s[Len(s)])

\* \b between s[i] and s[i+1]
Boundary(s, i) ==
  (i >= 1 /\ i <= Len(s) /\ IsWordChar(s[i])) # (i + 1 >= 1 /\ i + 1 <= Len(s) /\ IsWordChar(s[i + 1]))

\* the lower-case word w stands at s[i..], compared case-insensitively
MatchAt(s, i, w) ==
  /\ i >= 1
  /\ i + Len(w) - 1 <= Len(s)
  /\ LowerStr(SubSeq(s, i, i + Len(w) - 1)) = w

\* \bw\b at s[i..]
WordAt(s, i, w) == MatchAt(s, i, w) /\ Boundary(s, i - 1) /\ Boundary(s, i + Len(w) - 1)

\* re.search(r'\b(w1|w2|...)\b', s, re.I)
HasWord(s, ws) == \E i \in 1..Len(s) : \E w \in ws : WordAt(s, i, w)

\* len(re.findall(r'\b(?:w1|w2|...)\b', s, re.I))
CountWords(s, ws) == Cardinality({i \in 1..Len(s) : \E w \in ws : WordAt(s, i, w)})

\* [\s:\-]
IsSep(c) == IsSpace(c) \/ c \in {":", "-"}

RECURSIVE SkipSeps(_)
SkipSeps(s) == IF s # <<>> /\ IsSep(Head(s)) THEN SkipSeps(Tail(s)) ELSE s

NoMatch == [ok |-> FALSE, verb |-> <<>>, body |-> <<>>]

\* re.match(r'^(?P<verb>v1|v2|...)\b[\s:\-]*(.+)$', text, re.I): the verb as typed and
\* group (.+); the separators are taken greedily but leave (.+) one character
MatchCommand(text, verbs) ==
  LET hits == {v \in verbs : MatchAt(text, 1, v) /\ Boundary(text, Len(v))}
  IN  IF hits = {} THEN NoMatch
      ELSE LET v       == CHOOSE v \in hits : TRUE
               rest    == SubSeq(text, Len(v) + 1, Len(text))
               skipped == SkipSeps(rest)
           IN  IF rest = <<>> THEN NoMatch
               ELSE [ ok   |-> TRUE,
                      verb |-> SubSeq(text, 1, Len(v)),
                      body |-> IF skipped = <<>> THEN <<rest[Len(rest)]>> ELSE skipped ]

\* s.split(c)
RECURSIVE SplitOn(_, _)
SplitOn(s, c) ==
  LET Hit(x) == x = c
      i == FirstIndex(s, Hit, 1)
  IN  IF i = 0 THEN <<s>>
      ELSE <<SubSeq(s, 1, i - 1)>> \o SplitOn(SubSeq(s, i + 1, Len(s)), c)

W_and == <<"a", "n", "d">>

RECURSIVE FirstMatch(_, _, _)
FirstMatch(s, w, i) ==
  IF i > Len(s) THEN 0
  ELSE IF MatchAt(s, i, w) THEN i
  ELSE FirstMatch(s, w, i + 1)

\* re.split(r'(?i)\s*(?:and)\s*', s)
RECURSIVE SplitAnd(_)
SplitAnd(s) ==
  LET i == FirstMatch(s, W_and, 1)
  IN  IF i = 0 THEN <<s>>
      ELSE <<RStrip(SubSeq(s, 1, i - 1))>>
             \o SplitAnd(LStrip(SubSeq(s, i + Len(W_and), Len(s))))

\* s.strip(chars)
RECURSIVE StripChars(_, _)
StripChars(s, chars) ==
  IF s # <<>> /\ Head(s) \in chars THEN StripChars(Tail(s), chars)
  ELSE IF s # <<>> /\ s[Len(s)] \in chars THEN StripChars(SubSeq(s, 1, Len(s) - 1), chars)
  ELSE s

\* [f(x) for x in seq]
MapSeq(seq, F(_)) == [i \in 1..Len(seq) |-> F(seq[i])]

\* [x for x in seq if x]
RECURSIVE NonEmpty(_)
NonEmpty(seq) ==
  IF seq = <<>> THEN <<>>
  ELSE IF Head(seq) # <<>> THEN <<Head(seq)>> \o NonEmpty(Tail(seq))
  ELSE NonEmpty(Tail(seq))

---------------------------------------------------------------------------
(* Words of the chat commands *)

W_add        == <<"a", "d", "d">>
W_buy        == <<"b", "u", "y">>
W_create     == <<"c", "r", "e", "a", "t", "e">>
W_todo       == <<"t", "o", "d", "o">>
W_get        == <<"g", "e", "t">>
W_purchase   == <<"p", "u", "r", "c", "h", "a", "s", "e">>
W_grab       == <<"g", "r", "a", "b">>
W_remove     == <<"r", "e", "m", "o", "v", "e">>
W_delete     == <<"d", "e", "l", "e", "t", "e">>
W_clear      == <<"c", "l", "e", "a", "r">>
W_all        == <<"a", "l", "l">>
W_every      == <<"e", "v", "e", "r", "y">>
W_everything == <<"e", "v", "e", "r", "y", "t", "h", "i", "n", "g">>
W_complete   == <<"c", "o", "m", "p", "l", "e", "t", "e">>
W_completed  == <<"c", "o", "m", "p", "l", "e", "t", "e", "d">>
W_mark       == <<"m", "a", "r", "k">>
W_set        == <<"s", "e", "t">>
W_as         == <<"a", "s">>
W_done       == <<"d", "o", "n", "e">>

AddVerbs      == {W_add, W_buy, W_create, W_todo}
ItemVerbs     == {W_buy, W_add, W_get, W_purchase, W_grab}
RemoveVerbs   == {W_remove, W_delete, W_clear}
AllWords      == {W_all, W_every, W_everything}
CompleteVerbs == {W_complete, W_mark, W_set}

---------------------------------------------------------------------------
(* The add command: lines 387-415 *)

\* the parts of the body: split on commas, else on 'and' when verbs repeat
add_parts(body) ==
  IF \E i \in 1..Len(body) : body[i] = ","
  THEN NonEmpty(MapSeq(SplitOn(body, ","), Strip))
  ELSE IF CountWords(body, ItemVerbs) > 1 /\ HasWord(body, {W_and})
  THEN SplitAnd(body)
  ELSE <<body>>

\* an item that loses any leading item verb, whatever verb the command used
add_item_any_verb(leading_verb, p) ==
  LET q  == LStrip(p)
      vs == {v \in ItemVerbs \cup AddVerbs : MatchAt(q, 1, v) /\ Boundary(q, Len(v))}
  IN  IF vs = {} THEN StripChars(Strip(p), {" ", "\"", "'"})
      ELSE LET v == CHOOSE v \in vs : TRUE
           IN  StripChars(Strip(SubSeq(q, Len(v) + 1, Len(q))), {" ", "\"", "'"})

\* the item of one part: a leading repeat of the command's verb removed, then
\* blanks and quotes stripped
add_item(leading_verb, p) ==
  LET lv  == LowerStr(leading_verb)
      q   == LStrip(p)
      cut == IF MatchAt(p, 1, lv) /\ Boundary(p, Len(lv))
             THEN LStrip(SubSeq(p, Len(lv) + 1, Len(p)))
             ELSE p
      item == IF MatchAt(q, 1, lv) /\ Boundary(q, Len(lv)) THEN Strip(cut) ELSE Strip(p)
  IN  StripChars(item, {" ", "\"", "'"})

\* the items that become tasks, in order
add_items(leading_verb, body) ==
  LET Item(p) == add_item(leading_verb, p)
  IN  NonEmpty(MapSeq(add_parts(body), Item))

---------------------------------------------------------------------------
(* The remove command: lines 429-475 *)

RECURSIVE DigitPrefixLen(_)
DigitPrefixLen(s) == IF s # <<>> /\ IsDigit(Head(s)) THEN 1 + DigitPrefixLen(Tail(s)) ELSE 0

\* re.match(r'^\s*#?\s*\d+\s*[.!?]?\s*$', name) and the number re.search(r'(\d+)') finds
numeric_name(name) ==
  LET s1 == LStrip(name)
      s2 == IF s1 # <<>> /\ Head(s1) = "#" THEN Tail(s1) ELSE s1
      s3 == LStrip(s2)
      n  == DigitPrefixLen(s3)
      s4 == LStrip(SubSeq(s3, n + 1, Len(s3)))
      s5 == IF s4 # <<>> /\ Head(s4) \in {".", "!", "?"} THEN Tail(s4) ELSE s4
  IN  IF n > 0 /\ LStrip(s5) = <<>>
      THEN [ok |-> TRUE, sid |-> ToInt(SubSeq(s3, 1, n))]
      ELSE [ok |-> FALSE, sid |-> 0]

\* name.lower() in (title + ' ' + description).lower()
name_in_task(name, t) ==
  Contains(LowerStr(t.title \o <<" ">> \o t.description), LowerStr(name))

\* a search that stops at the first task that matches
RECURSIVE first_name_match(_, _)
first_name_match(tasks, name) ==
  IF tasks = <<>> THEN <<>>
  ELSE IF Contains(LowerStr(Head(tasks).title \o <<" ">> \o Head(tasks).description),
                   LowerStr(name))
  THEN <<Head(tasks)>>
  ELSE first_name_match(Tail(tasks), name)

\* [t for t in list(TASKS) if name.lower() in ...]
RECURSIVE name_matches(_, _)
name_matches(tasks, name) ==
  IF tasks = <<>> THEN <<>>
  ELSE IF name_in_task(name, Head(tasks))
  THEN <<Head(tasks)>> \o name_matches(Tail(tasks), name)
  ELSE name_matches(Tail(tasks), name)

\* the choices of a disambiguation response
choices_of(matches) ==
  [i \in 1..Len(matches) |-> [short_id |-> matches[i].short_id, title |-> matches[i].title]]

---------------------------------------------------------------------------
(* The complete command: lines 507-543 *)

\* the rest after the target: \s*(?:as\s+complete|completed|done)?$
complete_tail(tail) ==
  LET t == LowerStr(LStrip(tail))
      u == SubSeq(t, Len(W_as) + 1, Len(t))
  IN  \/ t = <<>>
      \/ t = W_completed
      \/ t = W_done
      \/ MatchAt(t, 1, W_as) /\ u # <<>> /\ IsSpace(Head(u)) /\ LStrip(u) = W_complete

\* (.+?): the shortest prefix of the body, of one character at least, that leaves a
\* rest the end of the pattern accepts
RECURSIVE LazyTarget(_, _)
LazyTarget(body, k) ==
  IF k >= Len(body) \/ complete_tail(SubSeq(body, k + 1, Len(body)))
  THEN SubSeq(body, 1, k)
  ELSE LazyTarget(body, k + 1)

\* m_complete and target = m_complete.group(1).strip()
match_complete(text) ==
  LET m == MatchCommand(text, CompleteVerbs)
  IN  IF m.ok THEN [ok |-> TRUE, target |-> Strip(LazyTarget(m.body, 1))]
      ELSE [ok |-> FALSE, target |-> <<>>]

\* the last index of the run of digits that starts at s[i]
RECURSIVE RunEnd(_, _)
RunEnd(s, i) == IF i + 1 <= Len(s) /\ IsDigit(s[i + 1]) THEN RunEnd(s, i + 1) ELSE i

RECURSIVE SkipSpaceFrom(_, _)
SkipSpaceFrom(s, i) == IF i <= Len(s) /\ IsSpace(s[i]) THEN SkipSpaceFrom(s, i + 1) ELSE i

\* re.findall(r'(\d+)\s*-\s*(\d+)', s) from s[i] on
RECURSIVE range_pairs(_, _)
range_pairs(s, i) ==
  IF i > Len(s) THEN <<>>
  ELSE IF ~IsDigit(s[i]) THEN range_pairs(s, i + 1)
  ELSE LET e == RunEnd(s, i)
           j == SkipSpaceFrom(s, e + 1)
           k == SkipSpaceFrom(s, j + 1)
       IN  IF j <= Len(s) /\ s[j] = "-" /\ k <= Len(s) /\ IsDigit(s[k])
           THEN <<<<ToInt(SubSeq(s, i, e)), ToInt(SubSeq(s, k, RunEnd(s, k)))>>>>
                  \o range_pairs(s, RunEnd(s, k) + 1)
           ELSE range_pairs(s, e + 1)

\* re.findall(r'\b(\d+)\b', s)
digit_words(s) ==
  {ToInt(SubSeq(s, i, RunEnd(s, i))) :
     i \in {j \in 1..Len(s) : IsDigit(s[j]) /\ Boundary(s, j - 1) /\ Boundary(s, RunEnd(s, j))}}

\* ids without the expansion of ranges: the individual numbers only
complete_ids_numbers_only(target) == digit_words(target)

\* ids: the ranges a-b with a <= b expanded, and the individual numbers
complete_ids(target) ==
  LET pairs == range_pairs(target, 1)
  IN  UNION {pairs[i][1]..pairs[i][2] : i \in 1..Len(pairs)} \cup digit_words(target)

\* sorted(ids)
RECURSIVE SortedSeq(_)
SortedSeq(set) ==
  IF set = {} THEN <<>>
  ELSE LET lo == CHOOSE x \in set : \A y \in set : x <= y
       IN  <<lo>> \o SortedSeq(set \ {lo})

\* the loop over sorted(ids), lines 548-555, from the i-th id on
RECURSIVE CompleteLoop(_, _, _, _, _)
CompleteLoop(sids, i, tasks, updated, not_found) ==
  IF i > Len(sids) THEN [tasks |-> tasks, updated |-> updated, not_found |-> not_found]
  ELSE LET idx == find_task_index_by_short(tasks, sids[i])
       IN  IF idx = 0
           THEN CompleteLoop(sids, i + 1, tasks, updated, Append(not_found, sids[i]))
           ELSE LET t == [tasks[idx] EXCEPT !.completed = TRUE]
                IN  CompleteLoop(sids, i + 1, [tasks EXCEPT ![idx] = t],
                                 Append(updated, t), not_found)

---------------------------------------------------------------------------
(* Undo buffer *)

\* a snapshot that keeps the first item only
snapshot_first_item(bufs, token, items) ==
  [k \in DOMAIN bufs \cup {token} |->
     IF k = token THEN [created |-> now, items |-> SubSeq(items, 1, 1)] ELSE bufs[k]]

\* UNDO_BUFFERS after snapshot_undo_buffer(items) drew `token`
snapshot_undo_buffer(bufs, token, items) ==
  [k \in DOMAIN bufs \cup {token} |->
     IF k = token THEN [created |-> now, items |-> items] ELSE bufs[k]]

\* a sweep that removes nothing
cleanup_nothing(bufs) == bufs

\* UNDO_BUFFERS after cleanup_undo_buffers()
cleanup_undo_buffers(bufs) ==
  LET expired == {k \in DOMAIN bufs : now - bufs[k].created > UNDO_EXPIRY_SECONDS}
  IN  [k \in DOMAIN bufs \ expired |-> bufs[k]]

\* a pop that empties the dict
dict_clear(bufs, token) == [k \in {} |-> bufs[k]]

\* UNDO_BUFFERS.get(token): the entry stays in the dict
dict_get(bufs, token) == bufs

\* dict.pop(token): the dict that is left
DictPop(bufs, token) == [k \in DOMAIN bufs \ {token} |-> bufs[k]]

---------------------------------------------------------------------------
(* The last response, in brief: the handler, the HTTP status, a tag of the  *)
(* message, and the numbers of the JSON body ('deleted' or 'restored',      *)
(* 'short_id', 'undo_token'); unused fields are at their defaults           *)

\* the last exchange: the handler, the chat message, the status and what the
\* body carries
NoResp ==
  [op |-> "none", text |-> <<>>, status |-> 0, msg |-> "", n |-> 0, short_id |-> 0,
   token |-> 0, choices |-> <<>>, updated |-> <<>>, not_found |-> <<>>, items |-> <<>>,
   translator |-> "", function |-> "", confirm |-> <<>>]

Resp(op, status) == [NoResp EXCEPT !.op = op, !.status = status]

ChatResp(op, text, status) == [Resp(op, status) EXCEPT !.text = text]

---------------------------------------------------------------------------
(* Request inputs *)

S_milk == <<"m", "i", "l", "k">>
S_soy  == <<"s", "o", "y">>
S_Milk == <<"M", "i", "l", "k">>
S_eggs == <<"e", "g", "g", "s">>

\* JSON bodies of POST /v1/tasks
Payloads ==
  { [title |-> <<" ">> \o S_soy, description |-> S_Milk, due_date |-> "2026-01-01"],
    [title |-> <<" ", " ">>, description |-> <<>>, due_date |-> None] }

\* messages of POST /v1/chat
Sp == <<" ">>
S_tea == <<"t", "e", "a">>
S_tasks == <<"t", "a", "s", "k", "s">>

T_add_buy_milk     == W_add \o Sp \o W_buy \o Sp \o S_milk
T_add_eggs_milk    == W_add \o Sp \o S_eggs \o <<",", " ">> \o S_milk
T_add_three        == W_add \o Sp \o S_milk \o <<",", " ">> \o S_eggs \o <<",", " ">> \o S_tea
T_buy_buy_milk     == W_buy \o Sp \o W_buy \o Sp \o S_milk
T_add_quoted       == <<"A", "d", "d", ":", " ", "'">> \o S_eggs \o <<"'", ",", ",">>
T_add_nothing      == W_add \o Sp \o <<",">>
T_add_and          == W_add \o Sp \o W_buy \o Sp \o S_tea \o Sp \o W_and \o Sp \o W_get \o Sp \o S_eggs
T_delete_all       == W_delete \o Sp \o W_all \o Sp \o S_tasks
T_clear_everything == W_clear \o Sp \o W_everything
T_delete_2         == W_delete \o Sp \o <<"#", "2">>
T_delete_milk      == W_delete \o Sp \o S_milk
T_remove_soy       == W_remove \o Sp \o S_soy \o Sp \o S_Milk
T_complete_all     == W_complete \o Sp \o W_all
T_complete_2_3     == W_complete \o Sp \o <<"2", "-", "3">>
T_complete_1_3     == W_complete \o Sp \o <<"1", ",", " ", "3">>
T_complete_3_2     == W_complete \o Sp \o <<"3", "-", "2">>
T_mark_2_5_done    == W_mark \o Sp \o <<"2", " ", "-", " ", "5">> \o Sp \o W_done
T_mark_milk        == W_mark \o Sp \o S_milk \o Sp \o W_as \o Sp \o W_complete
T_mark_eggs_done   == W_mark \o Sp \o S_eggs \o Sp \o W_done
T_set_tea          == W_set \o Sp \o S_tea
T_hello            == <<"h", "e", "l", "l", "o">>
T_remind_milk      == <<"r", "e", "m", "i", "n", "d", " ", "m", "e", ":", " ">> \o S_milk

AddTexts      == {T_add_buy_milk, T_add_eggs_milk, T_add_three, T_buy_buy_milk,
                  T_add_quoted, T_add_nothing, T_add_and}
RemoveTexts   == {T_delete_all, T_clear_everything, T_delete_2, T_delete_milk, T_remove_soy}
CompleteTexts == {T_complete_all, T_complete_2_3, T_complete_1_3, T_complete_3_2,
                  T_mark_2_5_done, T_mark_milk, T_mark_eggs_done, T_set_tea}
\* messages that no local pattern resolves
FallbackTexts == {T_hello, T_remind_milk, T_add_nothing}
ChatTexts     == AddTexts \cup RemoveTexts \cup CompleteTexts \cup FallbackTexts

\* the messages of the specification of all store operations
CoreTexts == {T_add_eggs_milk, T_delete_all, T_delete_2, T_delete_milk, T_complete_1_3}

Threads == 1..NumThreads
TaskIds == 1..(MaxUuids + 1)
TokenIds == 1..(MaxTokens + 1)
\* seconds between two requests
Delays == {1, UNDO_EXPIRY_SECONDS, UNDO_EXPIRY_SECONDS + 1}
\* values of the confirm parameter of DELETE /v1/tasks; <<>> is a request without it
ConfirmArgs ==
  { <<>>,
    << <<"t", "r", "u", "e">> >>,
    << <<" ", "T", "r", "u", "e">> >>,
    << <<"y", "e", "s">> >>,
    << <<"f", "a", "l", "s", "e">> >>,
    << <<"m", "a", "y", "b", "e">> >> }

---------------------------------------------------------------------------
(* Initial state: lines 132-138 *)

\* the local variables of a thread with no request
Idle == [status |-> 0, arg |-> 0, idx |-> 0, task |-> <<>>, items |-> <<>>, held |-> <<>>,
         ids |-> {}, seen |-> <<>>]

Init ==
  /\ TASKS = <<>>
  /\ NEXT_SHORT_ID = 1
  /\ UNDO_BUFFERS = <<>>
  /\ now = 0
  /\ ticks = 0
  /\ uuids = 0
  /\ tokens = 0
  /\ resp = NoResp
  /\ pc = [p \in Threads |-> "idle"]
  /\ loc = [p \in Threads |-> Idle]
  /\ lockOwner = 0
  /\ restores = [k \in TokenIds |-> 0]
  /\ client = FALSE

---------------------------------------------------------------------------
(* REST handlers, each run from request to response with no other request  *)
(* in between                                                               *)

create_task(data) ==
  IF ~(1 <= Len(Strip(data.title)) /\ Len(Strip(data.title)) <= TITLE_MAX)
  THEN /\ resp' = Resp("create_task", 400)
       /\ UNCHANGED <<TASKS, NEXT_SHORT_ID, UNDO_BUFFERS, now, ticks, uuids, tokens>>
  ELSE /\ uuids < MaxUuids
       /\ LET task == build_task(data.title, data.description, data.due_date, NEXT_SHORT_ID, uuids + 1)
          IN  /\ TASKS' = Append(TASKS, task)
              /\ resp' = [Resp("create_task", 201) EXCEPT !.short_id = task.short_id]
       /\ NEXT_SHORT_ID' = NEXT_SHORT_ID + 1
       /\ uuids' = uuids + 1
       /\ UNCHANGED <<UNDO_BUFFERS, now, ticks, tokens>>

patch_task(task_id, completed) ==
  LET idx == find_task_index(TASKS, task_id) IN
  IF idx = 0
  THEN /\ resp' = Resp("patch_task", 404)
       /\ UNCHANGED <<TASKS, NEXT_SHORT_ID, UNDO_BUFFERS, now, ticks, uuids, tokens>>
  ELSE /\ TASKS' = [TASKS EXCEPT ![idx].completed = completed]
       /\ resp' = Resp("patch_task", 200)
       /\ UNCHANGED <<NEXT_SHORT_ID, UNDO_BUFFERS, now, ticks, uuids, tokens>>

delete_task(task_id) ==
  LET idx == find_task_index(TASKS, task_id) IN
  IF idx = 0
  THEN /\ resp' = Resp("delete_task", 404)
       /\ UNCHANGED <<TASKS, NEXT_SHORT_ID, UNDO_BUFFERS, now, ticks, uuids, tokens>>
  ELSE /\ tokens < MaxTokens
       /\ LET removed == TASKS[idx]
              token   == tokens + 1
          IN  /\ TASKS' = renumber_short_ids(RemoveAt(TASKS, idx))
              /\ NEXT_SHORT_ID' = Len(TASKS')  + 1
              /\ UNDO_BUFFERS' = snapshot_undo_buffer(UNDO_BUFFERS, token, <<removed>>)
              /\ tokens' = token
              /\ resp' = [Resp("delete_task", 200) EXCEPT
                            !.n = 1, !.short_id = removed.short_id, !.token = token]
       /\ UNCHANGED <<now, ticks, uuids>>

delete_all_tasks(confirm_arg) ==
  LET confirm == parse_bool(confirm_arg) IN
  IF confirm # "True"
  THEN /\ resp' = [Resp("delete_all_tasks", 400) EXCEPT !.confirm = confirm_arg]
       /\ UNCHANGED <<TASKS, NEXT_SHORT_ID, UNDO_BUFFERS, now, ticks, uuids, tokens>>
  ELSE IF Len(TASKS) = 0
  THEN /\ resp' = [Resp("delete_all_tasks", 200) EXCEPT !.confirm = confirm_arg]
       /\ UNCHANGED <<TASKS, NEXT_SHORT_ID, UNDO_BUFFERS, now, ticks, uuids, tokens>>
  ELSE /\ tokens < MaxTokens
       /\ LET before == TASKS
              token  == tokens + 1
          IN  /\ TASKS' = renumber_short_ids(<<>>)
              /\ NEXT_SHORT_ID' = Len(TASKS') + 1
              /\ UNDO_BUFFERS' = snapshot_undo_buffer(UNDO_BUFFERS, token, before)
              /\ tokens' = token
              /\ resp' = [Resp("delete_all_tasks", 200) EXCEPT
                            !.n = Len(before), !.token = token, !.confirm = confirm_arg]
       /\ UNCHANGED <<now, ticks, uuids>>

\* a restore that re-creates the task as a new, incomplete one
restored_task_incomplete(it, existing_ids, fresh_uuid) ==
  [ id          |-> IF it.id = 0 \/ it.id \in existing_ids THEN fresh_uuid ELSE it.id,
    short_id    |-> it.short_id,
    title       |-> IF it.title # <<>> THEN it.title ELSE it.description,
    description |-> it.description,
    due_date    |-> it.due_date,
    completed   |-> FALSE,
    created_at  |-> IF it.created_at < 0 THEN now ELSE it.created_at ]

\* the record undo_restore appends for item `it` (lines 358-372); an item of a
\* snapshot has an id and a created_at; in a posted item a missing id is 0 and a
\* missing created_at is -1
restored_task(it, existing_ids, fresh_uuid) ==
  [ id          |-> IF it.id = 0 \/ it.id \in existing_ids THEN fresh_uuid ELSE it.id,
    short_id    |-> it.short_id,
    title       |-> IF it.title # <<>> THEN it.title ELSE it.description,
    description |-> it.description,
    due_date    |-> it.due_date,
    completed   |-> it.completed,
    created_at  |-> IF it.created_at < 0 THEN now ELSE it.created_at ]

\* the loop of undo_restore over items, from item i on: the list, and how many
\* uuids were drawn
RECURSIVE RestoreLoop(_, _, _, _, _)
RestoreLoop(items, i, tasks, existing_ids, drawn) ==
  IF i > Len(items) THEN [tasks |-> tasks, drawn |-> drawn]
  ELSE LET it    == items[i]
           fresh == it.id = 0 \/ it.id \in existing_ids
       IN  RestoreLoop(items, i + 1,
                       Append(tasks, restored_task(it, existing_ids, uuids + drawn + 1)),
                       existing_ids, IF fresh THEN drawn + 1 ELSE drawn)

\* restored = TASKS[-len(items):], line 374
restored_slice(tasks, n) ==
  SubSeq(tasks, IF n >= Len(tasks) THEN 1 ELSE Len(tasks) - n + 1, Len(tasks))

\* POST /v1/undo/restore with {token: ...}
undo_restore_token(token) ==
  LET swept == cleanup_undo_buffers(UNDO_BUFFERS) IN
  IF token \notin DOMAIN swept
  THEN /\ UNDO_BUFFERS' = swept
       /\ resp' = [Resp("undo_restore", 404) EXCEPT !.token = token]
       /\ UNCHANGED <<TASKS, NEXT_SHORT_ID, now, ticks, uuids, tokens>>
  ELSE LET items == swept[token].items
           done  == RestoreLoop(items, 1, TASKS, {t.id : t \in Range(TASKS)}, 0)
       IN  /\ uuids + done.drawn <= MaxUuids
           /\ UNDO_BUFFERS' = DictPop(swept, token)
           /\ TASKS' = renumber_short_ids(done.tasks)
           /\ NEXT_SHORT_ID' = Len(TASKS') + 1
           /\ uuids' = uuids + done.drawn
           /\ resp' = [Resp("undo_restore", 200) EXCEPT
                         !.n = Len(restored_slice(TASKS', Len(items))),
                         !.token = token,
                         !.items = restored_slice(TASKS', Len(items))]
           /\ UNCHANGED <<now, ticks, tokens>>

\* an id no uuid4() of the run returns: the id of a record a client made up
ForeignId == 101

\* a record of an items payload; an id of 0 and a created_at of -1 are missing keys
Item(id, title, description) ==
  [id |-> id, short_id |-> 0, title |-> title, description |-> description,
   due_date |-> None, completed |-> FALSE, created_at |-> -1]

\* a created_at of a posted item that lies ahead of the clock
FarCreatedAt == 1000

\* the items payloads of POST /v1/undo/restore
ItemPayloads ==
  { <<>>,
    <<Item(ForeignId, S_milk, <<>>), Item(ForeignId, S_eggs, <<>>)>>,
    <<Item(1, S_tea, <<>>)>>,
    <<Item(0, <<>>, <<>>)>>,
    <<[Item(0, S_tea, <<>>) EXCEPT !.created_at = FarCreatedAt]>> }

\* POST /v1/undo/restore with {items: [...]} and no token
undo_restore_items(items) ==
  /\ \A i \in 1..Len(items) : items[i].id <= uuids \/ items[i].id = ForeignId
  /\ IF items = <<>>
     THEN /\ UNDO_BUFFERS' = cleanup_undo_buffers(UNDO_BUFFERS)
          /\ resp' = Resp("undo_restore_items", 400)
          /\ UNCHANGED <<TASKS, NEXT_SHORT_ID, now, ticks, uuids, tokens>>
     ELSE LET done == RestoreLoop(items, 1, TASKS, {t.id : t \in Range(TASKS)}, 0)
          IN  /\ Len(TASKS) + Len(items) <= MaxTasks
              /\ uuids + done.drawn <= MaxUuids
              /\ UNDO_BUFFERS' = cleanup_undo_buffers(UNDO_BUFFERS)
              /\ TASKS' = renumber_short_ids(done.tasks)
              /\ NEXT_SHORT_ID' = Len(TASKS') + 1
              /\ uuids' = uuids + done.drawn
              /\ resp' = [Resp("undo_restore_items", 200) EXCEPT
                            !.n = Len(restored_slice(TASKS', Len(items))),
                            !.items = restored_slice(TASKS', Len(items))]
              /\ UNCHANGED <<now, ticks, tokens>>

---------------------------------------------------------------------------
(* POST /v1/chat: one action for each branch of the cascade, guarded by the  *)
(* tests that lead to the branch                                            *)

\* The parse of a message does not depend on the store: it is computed once
\* for each message of the model.

\* the items of the add command, <<>> when m_multi does not match
AddTable ==
  [text \in ChatTexts |->
     LET m == MatchCommand(text, AddVerbs)
     IN  IF m.ok THEN add_items(m.verb, m.body) ELSE <<>>]

\* m_multi matches and the loop adds at least one task (line 420)
add_resolves(text) == AddTable[text] # <<>>

\* the tasks the loop of lines 405-419 builds: one build_task for each item
added_tasks(text) ==
  LET items == AddTable[text]
  IN  [i \in 1..Len(items) |->
         build_task(items[i], <<>>, None, NEXT_SHORT_ID + i - 1, uuids + i)]

chat_add(text) ==
  /\ add_resolves(text)
  /\ LET added == added_tasks(text)
     IN  /\ uuids + Len(added) <= MaxUuids
         /\ TASKS' = renumber_short_ids(TASKS \o added)
         /\ NEXT_SHORT_ID' = Len(TASKS') + 1
         /\ uuids' = uuids + Len(added)
         /\ resp' = [ChatResp("chat_add", text, 200) EXCEPT !.msg = "added", !.n = Len(added)]
  /\ UNCHANGED <<UNDO_BUFFERS, now, ticks, tokens>>

\* m_remove is reached and matches: the name, whether it asks for all tasks,
\* and the number it is
RemoveTable ==
  [text \in ChatTexts |->
     LET m    == MatchCommand(text, RemoveVerbs)
         name == Strip(m.body)
     IN  IF ~add_resolves(text) /\ m.ok
         THEN [ok |-> TRUE, name |-> name, all |-> HasWord(name, AllWords),
               num |-> numeric_name(name)]
         ELSE [ok |-> FALSE, name |-> <<>>, all |-> FALSE, num |-> numeric_name(<<>>)]]

match_remove(text) == RemoveTable[text]

\* a delete-all that takes a snapshot of an empty store as well
chat_delete_all_always(text) ==
  LET m == match_remove(text) IN
  /\ m.ok
  /\ m.all
  /\ tokens < MaxTokens
  /\ TASKS' = <<>>
  /\ NEXT_SHORT_ID' = 1
  /\ UNDO_BUFFERS' = snapshot_undo_buffer(UNDO_BUFFERS, tokens + 1, TASKS)
  /\ tokens' = tokens + 1
  /\ resp' = [ChatResp("chat_delete_all", text, 200) EXCEPT
                !.msg = "deleted", !.n = Len(TASKS), !.token = tokens + 1]
  /\ UNCHANGED <<now, ticks, uuids>>

chat_delete_all(text) ==
  LET m == match_remove(text) IN
  /\ m.ok
  /\ m.all
  /\ IF Len(TASKS) = 0
     THEN /\ resp' = [ChatResp("chat_delete_all", text, 200) EXCEPT !.msg = "no_tasks"]
          /\ UNCHANGED <<TASKS, NEXT_SHORT_ID, UNDO_BUFFERS, now, ticks, uuids, tokens>>
     ELSE /\ tokens < MaxTokens
          /\ LET before == TASKS
                 token  == tokens + 1
             IN  /\ TASKS' = renumber_short_ids(<<>>)
                 /\ NEXT_SHORT_ID' = Len(TASKS') + 1
                 /\ UNDO_BUFFERS' = snapshot_undo_buffer(UNDO_BUFFERS, token, before)
                 /\ tokens' = token
                 /\ resp' = [ChatResp("chat_delete_all", text, 200) EXCEPT
                               !.msg = "deleted", !.n = Len(before), !.token = token]
          /\ UNCHANGED <<now, ticks, uuids>>

chat_delete_number(text) ==
  LET m   == match_remove(text)
      idx == find_task_index_by_short(TASKS, m.num.sid)
  IN
  /\ m.ok
  /\ ~m.all
  /\ m.num.ok
  /\ IF idx = 0
     THEN /\ resp' = [ChatResp("chat_delete_number", text, 200) EXCEPT !.msg = "no_task_number"]
          /\ UNCHANGED <<TASKS, NEXT_SHORT_ID, UNDO_BUFFERS, now, ticks, uuids, tokens>>
     ELSE /\ tokens < MaxTokens
          /\ LET deleted == TASKS[idx]
                 token   == tokens + 1
             IN  /\ TASKS' = renumber_short_ids(RemoveAt(TASKS, idx))
                 /\ NEXT_SHORT_ID' = Len(TASKS') + 1
                 /\ UNDO_BUFFERS' = snapshot_undo_buffer(UNDO_BUFFERS, token, <<deleted>>)
                 /\ tokens' = token
                 /\ resp' = [ChatResp("chat_delete_number", text, 200) EXCEPT
                               !.msg = "deleted", !.n = 1,
                               !.short_id = deleted.short_id, !.token = token]
          /\ UNCHANGED <<now, ticks, uuids>>

\* the remainder is a name: neither 'all' nor a number
remove_by_name(text) ==
  LET m == match_remove(text)
  IN  m.ok /\ ~m.all /\ ~m.num.ok

chat_delete_name(text) ==
  LET name    == match_remove(text).name
      matches == name_matches(TASKS, name)
  IN
  /\ remove_by_name(text)
  /\ IF Len(matches) = 0
     THEN /\ resp' = [ChatResp("chat_delete_name", text, 200) EXCEPT !.msg = "no_match"]
          /\ UNCHANGED <<TASKS, NEXT_SHORT_ID, UNDO_BUFFERS, now, ticks, uuids, tokens>>
     ELSE IF Len(matches) = 1
     THEN LET idx == find_task_index(TASKS, matches[1].id) IN
          IF idx = 0
          THEN /\ resp' = [ChatResp("chat_delete_name", text, 500) EXCEPT !.msg = "could_not_delete"]
               /\ UNCHANGED <<TASKS, NEXT_SHORT_ID, UNDO_BUFFERS, now, ticks, uuids, tokens>>
          ELSE /\ tokens < MaxTokens
               /\ LET deleted == TASKS[idx]
                      token   == tokens + 1
                  IN  /\ TASKS' = renumber_short_ids(RemoveAt(TASKS, idx))
                      /\ NEXT_SHORT_ID' = Len(TASKS') + 1
                      /\ UNDO_BUFFERS' = snapshot_undo_buffer(UNDO_BUFFERS, token, <<deleted>>)
                      /\ tokens' = token
                      /\ resp' = [ChatResp("chat_delete_name", text, 200) EXCEPT
                                    !.msg = "deleted", !.n = 1,
                                    !.short_id = deleted.short_id, !.token = token]
               /\ UNCHANGED <<now, ticks, uuids>>
     ELSE /\ resp' = [ChatResp("chat_delete_name", text, 200) EXCEPT
                        !.msg = "choices", !.n = Len(choices_of(matches)),
                        !.choices = choices_of(matches)]
          /\ UNCHANGED <<TASKS, NEXT_SHORT_ID, UNDO_BUFFERS, now, ticks, uuids, tokens>>

\* m_complete is reached and matches: the target, whether it asks for all
\* tasks, and the ids it names
CompleteTable ==
  [text \in ChatTexts |->
     LET m == match_complete(text)
     IN  IF ~add_resolves(text) /\ ~match_remove(text).ok /\ m.ok
         THEN [ok |-> TRUE, target |-> m.target, all |-> HasWord(m.target, {W_all}),
               ids |-> complete_ids(m.target)]
         ELSE [ok |-> FALSE, target |-> <<>>, all |-> FALSE, ids |-> {}]]

complete_target(text) == CompleteTable[text]

\* the tasks after the loop of lines 514-518
complete_all_tasks(tasks) == [i \in 1..Len(tasks) |-> [tasks[i] EXCEPT !.completed = TRUE]]

chat_complete_all(text) ==
  LET m == complete_target(text)
      updated == {i \in 1..Len(TASKS) : ~TASKS[i].completed}
  IN
  /\ m.ok
  /\ m.all
  /\ TASKS' = complete_all_tasks(TASKS)
  /\ resp' = IF updated = {}
             THEN [ChatResp("chat_complete_all", text, 200) EXCEPT !.msg = "already_complete"]
             ELSE [ChatResp("chat_complete_all", text, 200) EXCEPT
                     !.msg = "updated", !.n = Cardinality(updated)]
  /\ UNCHANGED <<NEXT_SHORT_ID, UNDO_BUFFERS, now, ticks, uuids, tokens>>

\* the target names short ids
complete_by_ids(text) ==
  LET m == complete_target(text)
  IN  m.ok /\ ~m.all /\ m.ids # {}

\* what lines 545-555 leave: the tasks, 'updated' and 'not_found'
complete_ids_result(text) ==
  CompleteLoop(SortedSeq(complete_target(text).ids), 1, TASKS, <<>>, <<>>)

chat_complete_ids(text) ==
  /\ complete_by_ids(text)
  /\ LET r == complete_ids_result(text)
     IN  /\ TASKS' = r.tasks
         /\ resp' = [ChatResp("chat_complete_ids", text, 200) EXCEPT
                       !.msg = IF r.not_found = <<>> THEN "updated"
                               ELSE IF r.updated = <<>> THEN "not_found"
                               ELSE "updated_and_not_found",
                       !.n = Len(r.updated),
                       !.updated = r.updated, !.not_found = r.not_found]
  /\ UNCHANGED <<NEXT_SHORT_ID, UNDO_BUFFERS, now, ticks, uuids, tokens>>

\* the target is a name: neither 'all' nor any number
complete_by_name(text) ==
  LET m == complete_target(text)
  IN  m.ok /\ ~m.all /\ m.ids = {}

chat_complete_name(text) ==
  LET name    == complete_target(text).target
      matches == name_matches(TASKS, name)
  IN
  /\ complete_by_name(text)
  /\ IF Len(matches) = 0
     THEN /\ resp' = [ChatResp("chat_complete_name", text, 200) EXCEPT !.msg = "no_match"]
          /\ UNCHANGED TASKS
     ELSE IF Len(matches) = 1
     THEN LET idx == find_task_index(TASKS, matches[1].id) IN
          IF idx = 0
          THEN /\ resp' = [ChatResp("chat_complete_name", text, 500) EXCEPT !.msg = "could_not_update"]
               /\ UNCHANGED TASKS
          ELSE /\ TASKS' = [TASKS EXCEPT ![idx].completed = TRUE]
               /\ resp' = [ChatResp("chat_complete_name", text, 200) EXCEPT
                             !.msg = "updated", !.n = 1, !.short_id = TASKS[idx].short_id]
     ELSE /\ resp' = [ChatResp("chat_complete_name", text, 200) EXCEPT
                        !.msg = "choices", !.n = Len(choices_of(matches)),
                        !.choices = choices_of(matches)]
          /\ UNCHANGED TASKS
  /\ UNCHANGED <<NEXT_SHORT_ID, UNDO_BUFFERS, now, ticks, uuids, tokens>>

\* what the call of the translator gives: it raises (or times out), its
\* response has no content, the content is not JSON, the content is a JSON
\* assistant message, or the content is a JSON function call
TranslatorFailures == {"raises", "no_content", "not_json"}
TranslatorFunctions == {"addTask", "viewTasks", "completeTask", "deleteTask", "deleteAll"}
TranslatorOutcomes == TranslatorFailures \cup {"assistant_message"} \cup TranslatorFunctions

\* a reply that lets the failure of json.loads through as an error of the handler
fallback_reply_unhandled(configured, outcome) ==
  IF configured /\ outcome = "not_json"
  THEN [status |-> 500, msg |-> "", function |-> ""]
  ELSE [status |-> 200, msg |-> "help", function |-> ""]

\* lines 594-625: the status and the body of the reply
fallback_reply(configured, outcome) ==
  IF ~configured THEN [status |-> 200, msg |-> "help", function |-> ""]
  ELSE IF outcome = "raises" THEN [status |-> 503, msg |-> "unavailable", function |-> ""]
  ELSE IF outcome = "no_content" THEN [status |-> 200, msg |-> "unexpected", function |-> ""]
  ELSE IF outcome = "not_json" THEN [status |-> 200, msg |-> "not_interpreted", function |-> ""]
  ELSE IF outcome = "assistant_message"
  THEN [status |-> 200, msg |-> "translated", function |-> ""]
  ELSE [status |-> 200, msg |-> "translated", function |-> outcome]

\* no local pattern resolves the message
unresolved(text) ==
  ~add_resolves(text) /\ ~match_remove(text).ok /\ ~complete_target(text).ok

\* the fallback of POST /v1/chat: the translator is called when it is
\* configured, and its JSON is returned as it is
chat_fallback(text, outcome) ==
  /\ unresolved(text)
  \* without a client the translator is not called: one outcome stands for all
  /\ client \/ outcome = "raises"
  /\ LET r == fallback_reply(client, outcome)
     IN  resp' = [ChatResp("chat_fallback", text, r.status) EXCEPT
                    !.msg = r.msg, !.function = r.function,
                    !.translator = IF client THEN outcome ELSE "not_called"]
  /\ UNCHANGED <<TASKS, NEXT_SHORT_ID, UNDO_BUFFERS, now, ticks, uuids, tokens>>

\* the clock moves between requests
Tick(dt) ==
  /\ ticks < MaxTicks
  /\ now' = now + dt
  /\ ticks' = ticks + 1
  /\ UNCHANGED <<TASKS, NEXT_SHORT_ID, UNDO_BUFFERS, uuids, tokens, resp>>

Next ==
  \/ \E data \in Payloads : create_task(data) /\ UNCHANGED <<threadVars, client>>
  \/ \E id \in TaskIds, c \in BOOLEAN : patch_task(id, c) /\ UNCHANGED <<threadVars, client>>
  \/ \E id \in TaskIds : delete_task(id) /\ UNCHANGED <<threadVars, client>>
  \/ \E c \in ConfirmArgs : delete_all_tasks(c) /\ UNCHANGED <<threadVars, client>>
  \/ \E tok \in TokenIds : undo_restore_token(tok) /\ UNCHANGED <<threadVars, client>>
  \/ \E text \in CoreTexts : chat_add(text) /\ UNCHANGED <<threadVars, client>>
  \/ \E text \in CoreTexts : chat_delete_all(text) /\ UNCHANGED <<threadVars, client>>
  \/ \E text \in CoreTexts : chat_delete_number(text) /\ UNCHANGED <<threadVars, client>>
  \/ \E text \in CoreTexts : chat_delete_name(text) /\ UNCHANGED <<threadVars, client>>
  \/ \E text \in CoreTexts : chat_complete_ids(text) /\ UNCHANGED <<threadVars, client>>
  \/ \E dt \in Delays : Tick(dt) /\ UNCHANGED <<threadVars, client>>

Spec == Init /\ [][Next]_vars

\* the store after construction, with or without an API key for the translator
InitAnyClient ==
  /\ TASKS = <<>>
  /\ NEXT_SHORT_ID = 1
  /\ UNDO_BUFFERS = <<>>
  /\ now = 0
  /\ ticks = 0
  /\ uuids = 0
  /\ tokens = 0
  /\ resp = NoResp
  /\ pc = [p \in Threads |-> "idle"]
  /\ loc = [p \in Threads |-> Idle]
  /\ lockOwner = 0
  /\ restores = [k \in TokenIds |-> 0]
  /\ client \in BOOLEAN

\* the chat endpoint on messages it does not resolve, with creation, update and
\* deletion of tasks
NextFallback ==
  \/ \E data \in Payloads : create_task(data) /\ UNCHANGED <<threadVars, client>>
  \/ \E id \in TaskIds, c \in BOOLEAN : patch_task(id, c) /\ UNCHANGED <<threadVars, client>>
  \/ \E id \in TaskIds : delete_task(id) /\ UNCHANGED <<threadVars, client>>
  \/ \E text \in FallbackTexts, outcome \in TranslatorOutcomes :
       chat_fallback(text, outcome) /\ UNCHANGED <<threadVars, client>>

SpecFallback == InitAnyClient /\ [][NextFallback]_vars

\* creation, deletion by id and the two forms of restore
NextRestore ==
  \/ \E data \in Payloads : create_task(data) /\ UNCHANGED <<threadVars, client>>
  \/ \E id \in TaskIds : delete_task(id) /\ UNCHANGED <<threadVars, client>>
  \/ \E tok \in TokenIds : undo_restore_token(tok) /\ UNCHANGED <<threadVars, client>>
  \/ \E items \in ItemPayloads : undo_restore_items(items) /\ UNCHANGED <<threadVars, client>>
  \/ \E dt \in {1} : Tick(dt) /\ UNCHANGED <<threadVars, client>>

SpecRestore == Init /\ [][NextRestore]_vars

\* the add, complete and name-based commands of the chat endpoint over the
\* whole set of messages, with task creation
NextChat ==
  \/ \E data \in Payloads : create_task(data) /\ UNCHANGED <<threadVars, client>>
  \/ \E text \in AddTexts : chat_add(text) /\ UNCHANGED <<threadVars, client>>
  \/ \E text \in RemoveTexts : chat_delete_number(text) /\ UNCHANGED <<threadVars, client>>
  \/ \E text \in RemoveTexts : chat_delete_name(text) /\ UNCHANGED <<threadVars, client>>
  \/ \E text \in CompleteTexts : chat_complete_all(text) /\ UNCHANGED <<threadVars, client>>
  \/ \E text \in CompleteTexts : chat_complete_ids(text) /\ UNCHANGED <<threadVars, client>>
  \/ \E text \in CompleteTexts : chat_complete_name(text) /\ UNCHANGED <<threadVars, client>>
  \/ \E dt \in {1} : Tick(dt) /\ UNCHANGED <<threadVars, client>>

SpecChat == Init /\ [][NextChat]_vars


---------------------------------------------------------------------------
(* Concurrent requests: one thread for each request, one step for each      *)
(* access to the shared store.  A statement run under `with TASKS_LOCK` is  *)
(* a step that needs the lock free or held by the thread itself; the lock is *)
(* held from the first step of a with-block to its last.                     *)

Goto(p, label, l) ==
  /\ pc' = [pc EXCEPT ![p] = label]
  /\ loc' = [loc EXCEPT ![p] = l]

\* the handler returns
Return(p, status) == Goto(p, "idle", [Idle EXCEPT !.status = status])

\* a lock that its owner cannot take again
lock_not_reentrant(p) == lockOwner = 0

\* TASKS_LOCK is an RLock: it can be taken when it is free and by its owner
LockFree(p) == lockOwner \in {0, p}

\* create_task, line 245: build_task under the lock
ct_build(p, data) ==
  /\ pc[p] = "idle"
  /\ 1 <= Len(Strip(data.title)) /\ Len(Strip(data.title)) <= TITLE_MAX
  /\ LockFree(p)
  /\ uuids < MaxUuids
  /\ Goto(p, "ct_append",
          [Idle EXCEPT !.task = <<build_task(data.title, data.description, data.due_date,
                                             NEXT_SHORT_ID, uuids + 1)>>])
  /\ NEXT_SHORT_ID' = NEXT_SHORT_ID + 1
  /\ uuids' = uuids + 1
  /\ UNCHANGED <<TASKS, UNDO_BUFFERS, now, ticks, tokens, resp, lockOwner, restores, client>>

\* create_task, lines 246-247: the append under the lock
ct_append(p) ==
  /\ pc[p] = "ct_append"
  /\ LockFree(p)
  /\ TASKS' = Append(TASKS, loc[p].task[1])
  /\ Return(p, 201)
  /\ UNCHANGED <<NEXT_SHORT_ID, UNDO_BUFFERS, now, ticks, uuids, tokens, resp, lockOwner, restores, client>>

\* chat add, lines 387-416: the text resolves to items and build_task runs for
\* the first one
ca_first(p, text) ==
  /\ pc[p] = "idle"
  /\ add_resolves(text)
  /\ uuids + Len(AddTable[text]) <= MaxUuids
  /\ LockFree(p)
  /\ Goto(p, "ca_append",
          [Idle EXCEPT !.task = <<build_task(Head(AddTable[text]), <<>>, None,
                                             NEXT_SHORT_ID, uuids + 1)>>,
                       !.items = Tail(AddTable[text])])
  /\ NEXT_SHORT_ID' = NEXT_SHORT_ID + 1
  /\ uuids' = uuids + 1
  /\ UNCHANGED <<TASKS, UNDO_BUFFERS, now, ticks, tokens, resp, lockOwner, restores, client>>

\* chat add, line 416: build_task for the next item
ca_build(p) ==
  /\ pc[p] = "ca_build"
  /\ LockFree(p)
  /\ Goto(p, "ca_append",
          [Idle EXCEPT !.task = <<build_task(Head(loc[p].items), <<>>, None,
                                             NEXT_SHORT_ID, uuids + 1)>>,
                       !.items = Tail(loc[p].items)])
  /\ NEXT_SHORT_ID' = NEXT_SHORT_ID + 1
  /\ uuids' = uuids + 1
  /\ UNCHANGED <<TASKS, UNDO_BUFFERS, now, ticks, tokens, resp, lockOwner, restores, client>>

\* chat add, lines 417-418: the append under the lock
ca_append(p) ==
  /\ pc[p] = "ca_append"
  /\ LockFree(p)
  /\ TASKS' = Append(TASKS, loc[p].task[1])
  /\ Goto(p, IF loc[p].items = <<>> THEN "ca_renumber" ELSE "ca_build",
          [loc[p] EXCEPT !.task = <<>>])
  /\ UNCHANGED <<NEXT_SHORT_ID, UNDO_BUFFERS, now, ticks, uuids, tokens, resp, lockOwner, restores, client>>

\* chat add, line 421
ca_renumber(p) ==
  /\ pc[p] = "ca_renumber"
  /\ LockFree(p)
  /\ TASKS' = renumber_short_ids(TASKS)
  /\ NEXT_SHORT_ID' = Len(TASKS') + 1
  /\ Return(p, 200)
  /\ UNCHANGED <<UNDO_BUFFERS, now, ticks, uuids, tokens, resp, lockOwner, restores, client>>

\* delete_task, lines 307-309: the lookup, before the lock is taken
dt_find(p, task_id) ==
  /\ pc[p] = "idle"
  /\ LET idx == find_task_index(TASKS, task_id)
     IN  IF idx = 0 THEN Return(p, 404)
         ELSE Goto(p, "dt_pop", [Idle EXCEPT !.arg = task_id, !.idx = idx])
  /\ UNCHANGED <<TASKS, NEXT_SHORT_ID, UNDO_BUFFERS, now, ticks, uuids, tokens, resp,
                 lockOwner, restores, client>>

\* delete_task, lines 310-311: the lock is taken and TASKS.pop(idx) runs with
\* the index found before; an index past the end raises IndexError (500)
dt_pop(p) ==
  /\ pc[p] = "dt_pop"
  /\ LockFree(p)
  /\ tokens < MaxTokens
  /\ IF loc[p].idx > Len(TASKS)
     THEN /\ Return(p, 500)
          /\ UNCHANGED <<TASKS, lockOwner>>
     ELSE /\ TASKS' = RemoveAt(TASKS, loc[p].idx)
          /\ lockOwner' = p
          /\ Goto(p, "del_renumber", [loc[p] EXCEPT !.held = <<TASKS[loc[p].idx]>>])
  /\ UNCHANGED <<NEXT_SHORT_ID, UNDO_BUFFERS, now, ticks, uuids, tokens, resp, restores, client>>

\* delete_all_tasks, lines 324-329, with confirm=true
da_clear(p) ==
  /\ pc[p] = "idle"
  /\ LockFree(p)
  /\ tokens < MaxTokens
  /\ IF Len(TASKS) = 0
     THEN /\ Return(p, 200)
          /\ UNCHANGED <<TASKS, lockOwner>>
     ELSE /\ TASKS' = <<>>
          /\ lockOwner' = p
          /\ Goto(p, "del_renumber", [Idle EXCEPT !.held = TASKS])
  /\ UNCHANGED <<NEXT_SHORT_ID, UNDO_BUFFERS, now, ticks, uuids, tokens, resp, restores, client>>

\* lines 312 and 330: renumber_short_ids() inside the with-block (the lock is
\* reentrant)
del_renumber(p) ==
  /\ pc[p] = "del_renumber"
  /\ LockFree(p)
  /\ TASKS' = renumber_short_ids(TASKS)
  /\ NEXT_SHORT_ID' = Len(TASKS') + 1
  /\ Goto(p, "del_snapshot", loc[p])
  /\ UNCHANGED <<UNDO_BUFFERS, now, ticks, uuids, tokens, resp, lockOwner, restores, client>>

\* lines 314 and 331: the snapshot, and the end of the with-block
del_snapshot(p) ==
  /\ pc[p] = "del_snapshot"
  /\ lockOwner = p
  /\ UNDO_BUFFERS' = snapshot_undo_buffer(UNDO_BUFFERS, tokens + 1, loc[p].held)
  /\ tokens' = tokens + 1
  /\ lockOwner' = 0
  /\ Return(p, 200)
  /\ UNCHANGED <<TASKS, NEXT_SHORT_ID, now, ticks, uuids, resp, restores, client>>

\* undo_restore, line 345
ur_cleanup(p, token) ==
  /\ pc[p] = "idle"
  /\ UNDO_BUFFERS' = cleanup_undo_buffers(UNDO_BUFFERS)
  /\ Goto(p, "ur_pop", [Idle EXCEPT !.arg = token])
  /\ UNCHANGED <<TASKS, NEXT_SHORT_ID, now, ticks, uuids, tokens, resp, lockOwner, restores, client>>

\* undo_restore, lines 347-350: UNDO_BUFFERS.pop(token, None)
ur_pop(p) ==
  /\ pc[p] = "ur_pop"
  /\ IF loc[p].arg \notin DOMAIN UNDO_BUFFERS
     THEN /\ Goto(p, "idle", [Idle EXCEPT !.status = 404, !.arg = loc[p].arg])
          /\ UNCHANGED UNDO_BUFFERS
     ELSE /\ UNDO_BUFFERS' = DictPop(UNDO_BUFFERS, loc[p].arg)
          /\ Goto(p, "ur_ids", [loc[p] EXCEPT !.items = UNDO_BUFFERS[loc[p].arg].items])
  /\ UNCHANGED <<TASKS, NEXT_SHORT_ID, now, ticks, uuids, tokens, resp, lockOwner, restores, client>>

\* undo_restore, lines 354-355: the lock is taken and existing_ids computed
ur_ids(p) ==
  /\ pc[p] = "ur_ids"
  /\ LockFree(p)
  /\ LET ids == LiveIds(TASKS)
     IN  /\ uuids + Cardinality({i \in 1..Len(loc[p].items) :
                                   loc[p].items[i].id = 0 \/ loc[p].items[i].id \in ids})
              <= MaxUuids
         /\ Goto(p, "ur_append", [loc[p] EXCEPT !.ids = ids])
  /\ lockOwner' = p
  /\ UNCHANGED <<TASKS, NEXT_SHORT_ID, UNDO_BUFFERS, now, ticks, uuids, tokens, resp, restores, client>>

\* undo_restore, lines 356-372: one turn of the loop
ur_append(p) ==
  /\ pc[p] = "ur_append"
  /\ lockOwner = p
  /\ LET it    == Head(loc[p].items)
         fresh == it.id = 0 \/ it.id \in loc[p].ids
     IN  /\ TASKS' = Append(TASKS, restored_task(it, loc[p].ids, uuids + 1))
         /\ uuids' = IF fresh THEN uuids + 1 ELSE uuids
  /\ Goto(p, IF Tail(loc[p].items) = <<>> THEN "ur_renumber" ELSE "ur_append",
          [loc[p] EXCEPT !.items = Tail(loc[p].items)])
  /\ UNCHANGED <<NEXT_SHORT_ID, UNDO_BUFFERS, now, ticks, tokens, resp, lockOwner, restores, client>>

\* undo_restore, lines 373-375: renumber, the end of the with-block, and 200
ur_renumber(p) ==
  /\ pc[p] = "ur_renumber"
  /\ lockOwner = p
  /\ TASKS' = renumber_short_ids(TASKS)
  /\ NEXT_SHORT_ID' = Len(TASKS') + 1
  /\ lockOwner' = 0
  /\ restores' = [restores EXCEPT ![loc[p].arg] = @ + 1]
  /\ Goto(p, "idle", [Idle EXCEPT !.status = 200, !.arg = loc[p].arg])
  /\ UNCHANGED <<UNDO_BUFFERS, now, ticks, uuids, tokens, resp, client>>

\* get_tasks without query parameters, lines 256-281: list(TASKS) is taken
\* without the lock, the copy is sorted by short_id and returned whole
gt_read(p) ==
  /\ pc[p] = "idle"
  /\ Goto(p, "idle", [Idle EXCEPT !.status = 200, !.seen = SortByShort(TASKS)])
  /\ UNCHANGED <<TASKS, NEXT_SHORT_ID, UNDO_BUFFERS, now, ticks, uuids, tokens, resp,
                 lockOwner, restores, client>>

\* a with-block that keeps the lock when it is left
KeepLock(p) == UNCHANGED lockOwner

\* leaving `with TASKS_LOCK`, by its end or by a return inside it, releases the
\* lock
Unlock(p) == lockOwner' = 0

\* chat delete by name, lines 474-500: the matches are collected before the
\* lock is taken
cdn_find(p, text) ==
  /\ pc[p] = "idle"
  /\ remove_by_name(text)
  /\ LET matches == name_matches(TASKS, match_remove(text).name)
     IN  IF Len(matches) = 1
         THEN Goto(p, "cdn_pop", [Idle EXCEPT !.arg = matches[1].id])
         ELSE Return(p, 200)
  /\ UNCHANGED <<TASKS, NEXT_SHORT_ID, UNDO_BUFFERS, now, ticks, uuids, tokens, resp,
                 lockOwner, restores, client>>

\* chat delete by name, lines 481-485: under the lock the task is looked up by
\* id and popped; when it is gone the with-block ends and the answer is 500
cdn_pop(p) ==
  /\ pc[p] = "cdn_pop"
  /\ LockFree(p)
  /\ tokens < MaxTokens
  /\ LET idx == find_task_index(TASKS, loc[p].arg)
     IN  IF idx = 0
         THEN /\ Return(p, 500)
              /\ UNCHANGED <<TASKS, lockOwner>>
         ELSE /\ TASKS' = RemoveAt(TASKS, idx)
              /\ lockOwner' = p
              /\ Goto(p, "cdn_renumber", [loc[p] EXCEPT !.held = <<TASKS[idx]>>])
  /\ UNCHANGED <<NEXT_SHORT_ID, UNDO_BUFFERS, now, ticks, uuids, tokens, resp, restores, client>>

\* chat delete by name, line 486: renumber_short_ids() takes the lock again
cdn_renumber(p) ==
  /\ pc[p] = "cdn_renumber"
  /\ LockFree(p)
  /\ TASKS' = renumber_short_ids(TASKS)
  /\ NEXT_SHORT_ID' = Len(TASKS') + 1
  /\ Goto(p, "cdn_snapshot", loc[p])
  /\ UNCHANGED <<UNDO_BUFFERS, now, ticks, uuids, tokens, resp, lockOwner, restores, client>>

\* chat delete by name, lines 487-494: the snapshot and the return from inside
\* the with-block
cdn_snapshot(p) ==
  /\ pc[p] = "cdn_snapshot"
  /\ lockOwner = p
  /\ UNDO_BUFFERS' = snapshot_undo_buffer(UNDO_BUFFERS, tokens + 1, loc[p].held)
  /\ tokens' = tokens + 1
  /\ Unlock(p)
  /\ Return(p, 200)
  /\ UNCHANGED <<TASKS, NEXT_SHORT_ID, now, ticks, uuids, resp, restores, client>>

\* chat fallback, lines 594-601 and 625: no local pattern matched; with a
\* client the translator is called, without one the static reply is returned
cf_enter(p, text) ==
  /\ pc[p] = "idle"
  /\ unresolved(text)
  /\ IF client THEN Goto(p, "cf_call", Idle) ELSE Return(p, 200)
  /\ UNCHANGED <<TASKS, NEXT_SHORT_ID, UNDO_BUFFERS, now, ticks, uuids, tokens, resp,
                 lockOwner, restores, client>>

\* chat fallback, lines 602-622: the translator call ends and the reply is made
cf_reply(p, outcome) ==
  /\ pc[p] = "cf_call"
  /\ Return(p, fallback_reply(TRUE, outcome).status)
  /\ UNCHANGED <<TASKS, NEXT_SHORT_ID, UNDO_BUFFERS, now, ticks, uuids, tokens, resp,
                 lockOwner, restores, client>>

\* the requests of the concurrent specifications
ThreadPayloads == {[title |-> S_milk, description |-> <<>>, due_date |-> None]}
ThreadTexts == {T_add_eggs_milk}

\* creation requests only
NextCreate ==
  \/ \E p \in Threads, data \in ThreadPayloads : ct_build(p, data)
  \/ \E p \in Threads : ct_append(p)
  \/ \E p \in Threads, text \in ThreadTexts : ca_first(p, text)
  \/ \E p \in Threads : ca_build(p)
  \/ \E p \in Threads : ca_append(p)
  \/ \E p \in Threads : ca_renumber(p)

SpecCreate == Init /\ [][NextCreate]_vars

\* creation, deletion and restore requests
NextThreads ==
  \/ \E p \in Threads, data \in ThreadPayloads : ct_build(p, data)
  \/ \E p \in Threads : ct_append(p)
  \/ \E p \in Threads, text \in ThreadTexts : ca_first(p, text)
  \/ \E p \in Threads : ca_build(p)
  \/ \E p \in Threads : ca_append(p)
  \/ \E p \in Threads : ca_renumber(p)
  \/ \E p \in Threads, id \in TaskIds : dt_find(p, id)
  \/ \E p \in Threads : dt_pop(p)
  \/ \E p \in Threads : da_clear(p)
  \/ \E p \in Threads : del_renumber(p)
  \/ \E p \in Threads : del_snapshot(p)
  \/ \E p \in Threads, tok \in TokenIds : ur_cleanup(p, tok)
  \/ \E p \in Threads : ur_pop(p)
  \/ \E p \in Threads : ur_ids(p)
  \/ \E p \in Threads : ur_append(p)
  \/ \E p \in Threads : ur_renumber(p)

SpecThreads == Init /\ [][NextThreads]_vars

\* creations and single deletions with a reader
NextRead ==
  \/ \E p \in Threads, data \in ThreadPayloads : ct_build(p, data)
  \/ \E p \in Threads : ct_append(p)
  \/ \E p \in Threads, id \in TaskIds : dt_find(p, id)
  \/ \E p \in Threads : dt_pop(p)
  \/ \E p \in Threads : del_renumber(p)
  \/ \E p \in Threads : del_snapshot(p)
  \/ \E p \in Threads : gt_read(p)

SpecRead == Init /\ [][NextRead]_vars

\* creations and chat deletions by name beside chat requests that reach the
\* translator
NextTranslate ==
  \/ \E p \in Threads, data \in ThreadPayloads : ct_build(p, data)
  \/ \E p \in Threads : ct_append(p)
  \/ \E p \in Threads : cdn_find(p, T_delete_milk)
  \/ \E p \in Threads : cdn_pop(p)
  \/ \E p \in Threads : cdn_renumber(p)
  \/ \E p \in Threads : cdn_snapshot(p)
  \/ \E p \in Threads : cf_enter(p, T_hello)
  \/ \E p \in Threads, outcome \in TranslatorOutcomes : cf_reply(p, outcome)

SpecTranslate == InitAnyClient /\ [][NextTranslate]_vars

\* the requests that are past their start and will draw an undo token
DeletesInFlight ==
  Cardinality({q \in Threads :
                 pc[q] \in {"dt_pop", "del_renumber", "del_snapshot",
                            "cdn_pop", "cdn_renumber", "cdn_snapshot"}})

\* a deletion starts only while a token is left for it
TokenLeft == tokens + DeletesInFlight < MaxTokens

\* creations and deletions that take the lock, one step at a time
NextLive ==
  \/ \E p \in Threads, data \in ThreadPayloads : ct_build(p, data)
  \/ \E p \in Threads : ct_append(p)
  \/ \E p \in Threads, id \in TaskIds : TokenLeft /\ dt_find(p, id)
  \/ \E p \in Threads : dt_pop(p)
  \/ \E p \in Threads : TokenLeft /\ da_clear(p)
  \/ \E p \in Threads : del_renumber(p)
  \/ \E p \in Threads : del_snapshot(p)
  \/ \E p \in Threads : TokenLeft /\ cdn_find(p, T_delete_milk)
  \/ \E p \in Threads : cdn_pop(p)
  \/ \E p \in Threads : cdn_renumber(p)
  \/ \E p \in Threads : cdn_snapshot(p)

\* the steps of a request that has started
Proceed(p) ==
  \/ ct_append(p)
  \/ dt_pop(p)
  \/ del_renumber(p)
  \/ del_snapshot(p)
  \/ cdn_pop(p)
  \/ cdn_renumber(p)
  \/ cdn_snapshot(p)

\* fair scheduling: a request whose next step stays possible takes it
SpecLive == Init /\ [][NextLive]_vars /\ \A p \in Threads : WF_vars(Proceed(p))

---------------------------------------------------------------------------
(* Properties of the store under sequential execution *)

ShortIds(tasks) == {tasks[i].short_id : i \in 1..Len(tasks)}

Content(t) == <<t.title, t.description, t.due_date, t.completed>>

DeleteOps == {"delete_task", "delete_all_tasks", "chat_delete_all",
              "chat_delete_number", "chat_delete_name"}

\* the response of this step carries a new undo token
Deleted == resp'.op \in DeleteOps /\ resp'.token # 0 /\ resp'.token \notin DOMAIN UNDO_BUFFERS

\* this step is a successful restore by token
Restored == resp'.op = "undo_restore" /\ resp'.status = 200 /\ resp'.token \in DOMAIN UNDO_BUFFERS

\* C4: a delete records the title, description, due_date and completed flag its
\* task has at that moment under the token it returns; no operation in between
\* changes what a token records; and a restore with the token leaves in the store
\* a task with these four fields for every task recorded
C4_RestoreReproduces ==
  [][ /\ Deleted =>
           LET snap == UNDO_BUFFERS'[resp'.token].items
           IN  {<<x.id, Content(x)>> : x \in Range(snap)}
                 = {<<t.id, Content(t)>> : t \in {u \in Range(TASKS) : u.id \notin LiveIds(TASKS')}}
      /\ \A k \in DOMAIN UNDO_BUFFERS \cap DOMAIN UNDO_BUFFERS' :
           UNDO_BUFFERS'[k] = UNDO_BUFFERS[k]
      /\ Restored =>
           \A x \in Range(UNDO_BUFFERS[resp'.token].items) :
             \E j \in 1..Len(TASKS') : Content(TASKS'[j]) = Content(x)
    ]_vars

\* a task completed, deleted, and restored after time has passed is the only
\* task of the store, and completed
C4_Witness ==
  /\ resp.op = "undo_restore"
  /\ resp.status = 200
  /\ resp.n = 1
  /\ Len(TASKS) = 1
  /\ TASKS[1].completed
  /\ TASKS[1].due_date # None
  /\ now > TASKS[1].created_at

\* the snapshot of token k is older than the expiry window
Expired(k) == k \in DOMAIN UNDO_BUFFERS /\ now - UNDO_BUFFERS[k].created > UNDO_EXPIRY_SECONDS

\* C6: a restore that presents a token whose snapshot is more than 300 seconds
\* old is answered 404 and restores nothing, whatever happened in between
C6_ExpiredRejected ==
  [][ \A k \in TokenIds :
        (Expired(k) /\ undo_restore_token(k)) =>
          /\ resp'.status = 404
          /\ TASKS' = TASKS
          /\ NEXT_SHORT_ID' = NEXT_SHORT_ID
    ]_vars

\* the one token of the run was never restored (the store is empty), the sweep
\* of a restore request removed it after the window, and the request got 404
C6_Witness ==
  /\ resp.op = "undo_restore"
  /\ resp.status = 404
  /\ tokens = 1
  /\ uuids >= 1
  /\ TASKS = <<>>
  /\ UNDO_BUFFERS = <<>>
  /\ now > UNDO_EXPIRY_SECONDS

\* a task but for its short_id
NoShort(t) == <<t.id, t.title, t.description, t.due_date, t.completed, t.created_at>>

\* C7: a chat delete-all on a store of N >= 1 tasks reports deleted = N, leaves
\* the store empty and returns a new undo token that records these N tasks; a
\* restore with a token that has not expired succeeds, and re-inserts exactly
\* the tasks the token records beside the tasks of the store
C7_ChatDeleteAll ==
  [][ /\ \A text \in ChatTexts :
           (Len(TASKS) >= 1 /\ resp'.op = "chat_delete_all" /\ resp'.text = text) =>
             /\ match_remove(text).all
             /\ resp'.n = Len(TASKS)
             /\ TASKS' = <<>>
             /\ resp'.token \in DOMAIN UNDO_BUFFERS' \ DOMAIN UNDO_BUFFERS
             /\ UNDO_BUFFERS'[resp'.token].items = TASKS
      /\ \A k \in TokenIds :
           (/\ resp'.op = "undo_restore" /\ resp'.token = k
            /\ k \in DOMAIN UNDO_BUFFERS /\ ~Expired(k)) =>
             /\ resp'.status = 200
             /\ resp'.n = Len(UNDO_BUFFERS[k].items)
             /\ Len(TASKS') = Len(TASKS) + Len(UNDO_BUFFERS[k].items)
             /\ {NoShort(t) : t \in Range(TASKS')}
                  = {NoShort(t) : t \in Range(TASKS)}
                      \cup {NoShort(x) : x \in Range(UNDO_BUFFERS[k].items)}
    ]_vars

\* a chat delete-all has emptied a store of three tasks and its token is pending
C7_Witness ==
  /\ resp.op = "chat_delete_all"
  /\ resp.n = 3
  /\ TASKS = <<>>
  /\ resp.token \in DOMAIN UNDO_BUFFERS
  /\ Len(UNDO_BUFFERS[resp.token].items) = 3

---------------------------------------------------------------------------
(* Properties of the store under concurrent requests *)

AllIdle == \A p \in Threads : pc[p] = "idle"

\* C2: while creation requests (POST /v1/tasks and chat add) run concurrently,
\* the tasks of every reachable store have pairwise distinct short_id values.
C2_DistinctShortIds ==
  \A i, j \in 1..Len(TASKS) : TASKS[i].short_id = TASKS[j].short_id => i = j

\* C3: once every request of an interleaving of creations, deletions and
\* restores has returned, the short_id values are exactly 1..Len(TASKS).
C3_DenseAtCompletion ==
  AllIdle => ShortIds(TASKS) = 1..Len(TASKS)

\* C5: of the restore requests that present one token, at most one is answered
\* 200; a request that finds the token gone is answered 404 and the step that
\* answers it leaves the task store as it was.
C5_TokenConsumedOnce ==
  [][/\ \A k \in TokenIds : restores'[k] <= 1
     /\ \A p \in Threads :
          (pc[p] = "ur_pop" /\ pc'[p] = "idle")
            => /\ loc'[p].status = 404
               /\ loc[p].arg \notin DOMAIN UNDO_BUFFERS
               /\ TASKS' = TASKS /\ NEXT_SHORT_ID' = NEXT_SHORT_ID
               /\ UNDO_BUFFERS' = UNDO_BUFFERS
     /\ \A p \in Threads :
          (pc[p] = "ur_pop" /\ loc[p].arg \in DOMAIN UNDO_BUFFERS /\ pc'[p] # pc[p])
            => loc[p].arg \notin DOMAIN UNDO_BUFFERS']_vars

\* two restores presented one token at the same time: the first was answered
\* 404 while the second, which consumed the token, is restoring its tasks
C5_Witness ==
  \E k \in TokenIds :
    /\ pc[1] = "idle" /\ loc[1].status = 404 /\ loc[1].arg = k
    /\ pc[2] = "ur_append" /\ loc[2].arg = k
    /\ k \notin DOMAIN UNDO_BUFFERS

---------------------------------------------------------------------------
(* Properties of the chat commands *)

S_buy_milk == W_buy \o Sp \o S_milk

\* the name each name-based message asks for
NameOf ==
  (T_delete_milk :> S_milk) @@ (T_remove_soy :> S_soy \o Sp \o S_Milk) @@ (T_mark_milk :> S_milk)
    @@ (T_mark_eggs_done :> S_eggs) @@ (T_set_tea :> S_tea)

\* the indices of the tasks whose title or description contains the name,
\* whatever the case of the letters
MatchingIndices(name) ==
  {i \in 1..Len(TASKS) :
     Contains(LowerStr(TASKS[i].title \o <<" ">> \o TASKS[i].description), LowerStr(name))}

\* C8: a chat delete or complete by name that matches two tasks or more answers
\* with the choices list of just those tasks (short_id and title) and leaves
\* the task store, the short-id counter and the undo buffer as they were.
C8_AmbiguousNameChangesNothing ==
  [][\A text \in DOMAIN NameOf :
       LET M == MatchingIndices(NameOf[text])
       IN  (/\ resp'.op \in {"chat_delete_name", "chat_complete_name"}
            /\ resp'.text = text
            /\ Cardinality(M) >= 2)
             => /\ resp'.status = 200
                /\ Len(resp'.choices) = Cardinality(M)
                /\ \A i \in M : \E j \in 1..Len(resp'.choices) :
                     resp'.choices[j] = [short_id |-> TASKS[i].short_id,
                                         title |-> TASKS[i].title]
                /\ TASKS' = TASKS
                /\ NEXT_SHORT_ID' = NEXT_SHORT_ID
                /\ UNDO_BUFFERS' = UNDO_BUFFERS]_vars

\* 'delete milk' met a store of three tasks, two of them with milk in the title
\* or the description, and offered both
C8_Witness ==
  /\ resp.op = "chat_delete_name"
  /\ resp.text = T_delete_milk
  /\ Len(resp.choices) = 2
  /\ Cardinality(MatchingIndices(S_milk)) = 2
  /\ Len(TASKS) = 3

\* the short ids each message names: the ranges a-b with a <= b, expanded, and
\* the numbers that stand alone ('3-2' is no range; its 3 and its 2 are numbers)
IdsOf ==
  (T_complete_2_3 :> {2, 3}) @@ (T_complete_1_3 :> {1, 3}) @@ (T_complete_3_2 :> {2, 3})
    @@ (T_mark_2_5_done :> {2, 3, 4, 5})

Ascending(seq) == \A i, j \in 1..Len(seq) : i < j => seq[i] < seq[j]

\* C9: a chat complete that names the set S of short ids completes every task
\* whose short_id is in S and lists it in 'updated', lists in 'not_found' every
\* id of S that no task has, covers S once with the two lists, each in
\* ascending order, and leaves the completed flag of every other task alone.
C9_CompleteByIds ==
  [][\A text \in DOMAIN IdsOf :
       LET S   == IdsOf[text]
           upd == [j \in 1..Len(resp'.updated) |-> resp'.updated[j].short_id]
           nf  == resp'.not_found
       IN  (resp'.op = "chat_complete_ids" /\ resp'.text = text)
             => /\ Len(TASKS') = Len(TASKS)
                /\ \A i \in 1..Len(TASKS) :
                     IF TASKS[i].short_id \in S
                     THEN /\ TASKS'[i] = [TASKS[i] EXCEPT !.completed = TRUE]
                          /\ \E j \in 1..Len(upd) : resp'.updated[j] = TASKS'[i]
                     ELSE TASKS'[i] = TASKS[i]
                /\ \A s \in S : s \notin ShortIds(TASKS) => \E j \in 1..Len(nf) : nf[j] = s
                /\ Range(upd) \cup Range(nf) = S
                /\ Range(upd) \cap Range(nf) = {}
                /\ Ascending(upd) /\ Ascending(nf)
                /\ NEXT_SHORT_ID' = NEXT_SHORT_ID
                /\ UNDO_BUFFERS' = UNDO_BUFFERS]_vars

\* 'mark 2 - 5 done' on three tasks: 2 and 3 are completed, 4 and 5 not found,
\* and task 1 stays open
C9_Witness ==
  /\ resp.op = "chat_complete_ids"
  /\ resp.text = T_mark_2_5_done
  /\ Len(resp.updated) = 2
  /\ resp.not_found = <<4, 5>>
  /\ Len(TASKS) = 3
  /\ ~TASKS[1].completed /\ TASKS[2].completed /\ TASKS[3].completed

\* the titles each add message asks for, in order: comma-separated items or
\* one item
TitlesOf ==
  (T_add_buy_milk :> <<S_buy_milk>>) @@ (T_add_eggs_milk :> <<S_eggs, S_milk>>)
    @@ (T_add_three :> <<S_milk, S_eggs, S_tea>>) @@ (T_buy_buy_milk :> <<S_milk>>)
    @@ (T_add_quoted :> <<S_eggs>>)

\* C10: a chat add whose body gives k items that are not empty appends k tasks,
\* in the order of the items, each titled with its item less a leading repeat
\* of the verb of the command, and changes nothing of the tasks that were
\* there but their short_id.
C10_AddCreatesItems ==
  [][\A text \in DOMAIN TitlesOf :
       LET titles == TitlesOf[text]
           k      == Len(titles)
           n      == Len(TASKS)
       IN  (resp'.op = "chat_add" /\ resp'.text = text /\ uuids' # uuids)
             => /\ Len(TASKS') = n + k
                /\ resp'.n = k
                /\ \A i \in 1..k :
                     /\ TASKS'[n + i].title = titles[i]
                     /\ ~TASKS'[n + i].completed
                     /\ TASKS'[n + i].id \notin LiveIds(TASKS)
                /\ \A i \in 1..n : NoShort(TASKS'[i]) = NoShort(TASKS[i])
                /\ UNDO_BUFFERS' = UNDO_BUFFERS]_vars

\* 'add buy milk' after a task was created: the new task is titled 'buy milk'
C10_Witness ==
  /\ resp.op = "chat_add"
  /\ resp.text = T_add_buy_milk
  /\ resp.n = 1
  /\ Len(TASKS) = 2
  /\ TASKS[2].title = S_buy_milk

---------------------------------------------------------------------------
(* Properties of the restore response *)

\* C11: a successful restore returns in 'items' just the tasks it re-inserted,
\* with the short ids they have after the renumbering, and in 'restored' their
\* number, whatever the store holds, tasks created after the restored ones
\* included.
C11_RestoreReturnsReinserted ==
  [][Restored =>
       LET reinserted == {t \in Range(TASKS') : t.id \notin LiveIds(TASKS)}
       IN  /\ Range(resp'.items) = reinserted
           /\ resp'.n = Cardinality(reinserted)]_vars

\* C12: no two tasks of the store have one id, whatever operations ran; a
\* restore, by token or by an items payload, one that lists an id twice
\* included, gives a new id to every record whose id is taken.
C12_DistinctIds ==
  \A i, j \in 1..Len(TASKS) : TASKS[i].id = TASKS[j].id => i = j

\* C13: every task of the store, whether a POST, a chat add or a restore put it
\* there, has a title that is trimmed and 1 to 200 characters long.
C13_TitlesValid ==
  \A i \in 1..Len(TASKS) :
    /\ TASKS[i].title = Strip(TASKS[i].title)
    /\ 1 <= Len(TASKS[i].title)
    /\ Len(TASKS[i].title) <= TITLE_MAX

---------------------------------------------------------------------------
(* Properties of the fallback of the chat endpoint *)

\* this step is a chat request that reached the fallback
Fallback == resp'.op = "chat_fallback"

\* C14: when the translator returns a function call, the call is applied to the
\* store with the operations of the local parser: addTask creates a task,
\* deleteAll empties the store.
C14_TranslatedCallApplied ==
  [][/\ (Fallback /\ resp'.translator = "addTask") => Len(TASKS') = Len(TASKS) + 1
     /\ (Fallback /\ resp'.translator = "deleteAll") => TASKS' = <<>>]_vars

\* the static messages of the fallback
StaticMessages == {"help", "unavailable", "unexpected", "not_interpreted"}

\* C15: when the translator raises, returns no content or returns content that
\* is not JSON, the chat request ends with a reply that carries a static
\* assistant message, not with an error of the handler, and the task store and
\* the undo buffer are as they were.
C15_TranslatorFailureDegrades ==
  [][(Fallback /\ resp'.translator \in TranslatorFailures) =>
       /\ resp'.msg \in StaticMessages
       /\ resp'.function = ""
       /\ resp'.status # 500
       /\ TASKS' = TASKS
       /\ NEXT_SHORT_ID' = NEXT_SHORT_ID
       /\ UNDO_BUFFERS' = UNDO_BUFFERS]_vars

\* the content of the translator was not JSON, the reply carries the static
\* message for it, and the store still holds its task and its snapshot
C15_Witness ==
  /\ resp.op = "chat_fallback"
  /\ resp.translator = "not_json"
  /\ resp.msg = "not_interpreted"
  /\ Len(TASKS) = 1
  /\ DOMAIN UNDO_BUFFERS # {}

\* C16: the chat endpoint answers 503 only when the translator is not
\* configured; when a configured translator fails, the reply is a static
\* message without the 503 status.
C16_UnavailableOnlyUnconfigured ==
  [][Fallback =>
       /\ resp'.status = 503 => ~client
       /\ (client /\ resp'.translator \in TranslatorFailures) => resp'.status # 503]_vars

---------------------------------------------------------------------------
(* Properties of the chat commands that find no task *)

\* this step is a request, whose response is resp', not a move of the clock
Request == ticks' = ticks

\* the number each delete-by-number message asks for
NumberOf == (T_delete_2 :> 2)

\* the reference of the message matches no task of the store
MatchesNone(text) ==
  \/ text \in DOMAIN NumberOf /\ NumberOf[text] \notin ShortIds(TASKS)
  \/ text \in DOMAIN NameOf /\ MatchingIndices(NameOf[text]) = {}
  \/ text \in DOMAIN IdsOf /\ IdsOf[text] \cap ShortIds(TASKS) = {}

\* C17: a chat delete or complete whose number or name matches no task is
\* answered 200 with an assistant message, never with an HTTP error, and the
\* task store and the undo buffer are as they were.
C17_NoMatchIsNotAnError ==
  [][\A text \in DOMAIN NumberOf \cup DOMAIN NameOf \cup DOMAIN IdsOf :
       (/\ Request
        /\ resp'.op \in {"chat_delete_number", "chat_delete_name",
                         "chat_complete_ids", "chat_complete_name"}
        /\ resp'.text = text
        /\ MatchesNone(text))
         => /\ resp'.status = 200
            /\ resp'.msg \in {"no_task_number", "no_match", "not_found"}
            /\ resp'.token = 0
            /\ TASKS' = TASKS
            /\ NEXT_SHORT_ID' = NEXT_SHORT_ID
            /\ UNDO_BUFFERS' = UNDO_BUFFERS]_vars

\* 'delete #2' on a store of one task: the answer says there is no such number
\* and the task is still there
C17_Witness ==
  /\ resp.op = "chat_delete_number"
  /\ resp.text = T_delete_2
  /\ resp.msg = "no_task_number"
  /\ resp.status = 200
  /\ Len(TASKS) = 1

---------------------------------------------------------------------------
(* Properties of DELETE /v1/tasks *)

\* the values of confirm that say true
ConfirmTrue ==
  { << <<"t", "r", "u", "e">> >>, << <<" ", "T", "r", "u", "e">> >>, << <<"y", "e", "s">> >> }

\* C18: DELETE /v1/tasks with confirm missing, false or unreadable is answered
\* 400 and leaves the task store, the short-id counter and the undo buffer as
\* they were; the endpoint deletes the tasks only when confirm is true.
C18_DeleteAllNeedsConfirm ==
  [][(Request /\ resp'.op = "delete_all_tasks") =>
       IF resp'.confirm \in ConfirmTrue
       THEN resp'.status = 200 /\ TASKS' = <<>> /\ resp'.n = Len(TASKS)
       ELSE /\ resp'.status = 400
            /\ TASKS' = TASKS
            /\ NEXT_SHORT_ID' = NEXT_SHORT_ID
            /\ UNDO_BUFFERS' = UNDO_BUFFERS]_vars

\* DELETE /v1/tasks?confirm=maybe on a store of two tasks with a pending
\* snapshot is answered 400 and nothing is deleted
C18_Witness ==
  /\ resp.op = "delete_all_tasks"
  /\ resp.confirm = << <<"m", "a", "y", "b", "e">> >>
  /\ resp.status = 400
  /\ Len(TASKS) = 2
  /\ DOMAIN UNDO_BUFFERS # {}

---------------------------------------------------------------------------
(* Properties of single-task requests under concurrent execution *)

\* C19: under any interleaving, DELETE /v1/tasks/{id} removes the task it
\* looked up by id, never another task that has moved to the position found
\* by the lookup.
C19_RemovesLookedUpTask ==
  [][\A p \in Threads :
       (pc[p] = "dt_pop" /\ pc'[p] = "del_renumber") =>
         loc'[p].held[1].id = loc[p].arg]_vars

\* thread p answers GET /v1/tasks in this step
ReadStep(p) ==
  /\ pc[p] = "idle" /\ pc'[p] = "idle"
  /\ TASKS' = TASKS
  /\ loc'[p].status = 200
  /\ loc'[p].seen = SortByShort(TASKS)

\* C20: GET /v1/tasks running beside store-mutating requests never returns
\* tasks whose short_id values are duplicated or gapped: a read taken while
\* no creation is in progress returns exactly the values 1..N for the N tasks
\* it returns, also when a removal has not been renumbered yet.
C20_ReadSeesDenseShortIds ==
  [][\A p \in Threads :
       (ReadStep(p) /\ \A q \in Threads : pc[q] # "ct_append") =>
         /\ ShortIds(loc'[p].seen) = 1..Len(loc'[p].seen)
         /\ Cardinality(ShortIds(loc'[p].seen)) = Len(loc'[p].seen)]_vars

---------------------------------------------------------------------------
(* Properties of the store lock *)

\* C21: the store lock is never held by a request while its translator call
\* is in flight, so another request can hold the lock and change the store
\* during the call.
C21_NoLockInTranslator ==
  \A p \in Threads : pc[p] = "cf_call" => lockOwner # p

\* one request is inside the translator call while another holds the lock and
\* has removed a task
C21_Witness ==
  \E p, q \in Threads :
    /\ pc[p] = "cf_call"
    /\ pc[q] = "cdn_renumber"
    /\ lockOwner = q

---------------------------------------------------------------------------
(* Properties of the undo buffer *)

\* C22: a pending undo snapshot never changes: after any request each snapshot
\* is still there with the creation time and the item records it had, unless
\* it had expired or it is the one this request consumed; consuming a snapshot
\* leaves every other snapshot as it was.
C22_SnapshotsFrozen ==
  [][\A k \in DOMAIN UNDO_BUFFERS :
       \/ k \in DOMAIN UNDO_BUFFERS' /\ UNDO_BUFFERS'[k] = UNDO_BUFFERS[k]
       \/ /\ k \notin DOMAIN UNDO_BUFFERS'
          /\ \/ Expired(k)
             \/ /\ resp'.op = "undo_restore"
                /\ resp'.status = 200
                /\ resp'.token = k]_vars

\* a restore has consumed one of two snapshots, the other is still pending,
\* and the store holds a completed task
C22_Witness ==
  /\ resp.op = "undo_restore"
  /\ resp.status = 200
  /\ \E k \in DOMAIN UNDO_BUFFERS : k # resp.token /\ UNDO_BUFFERS[k].items # <<>>
  /\ \E i \in 1..Len(TASKS) : TASKS[i].completed

---------------------------------------------------------------------------
(* Properties of the short-id order *)

\* C23: under sequential execution, after every completed creation, deletion
\* or restore the short_id order follows the creation order: a task with a
\* smaller short_id has a created_at no later than one with a greater short_id.
C23_ShortIdFollowsCreation ==
  \A i, j \in 1..Len(TASKS) :
    TASKS[i].short_id < TASKS[j].short_id => TASKS[i].created_at <= TASKS[j].created_at

---------------------------------------------------------------------------
(* Properties of delete-all on an empty store *)

\* the request of this step is a delete-all: the chat command, or
\* DELETE /v1/tasks with a confirm that says true
DeleteAllRequest ==
  /\ Request
  /\ \/ resp'.op = "chat_delete_all"
     \/ resp'.op = "delete_all_tasks" /\ resp'.confirm \in ConfirmTrue

\* C24: every snapshot in the undo buffer holds at least one task record; a
\* delete-all, by REST or by chat, on an empty store is answered without an
\* undo token and leaves the store and the undo buffer as they were.
C24_NoEmptySnapshot ==
  [][ /\ \A k \in DOMAIN UNDO_BUFFERS' : Len(UNDO_BUFFERS'[k].items) >= 1
      /\ (DeleteAllRequest /\ Len(TASKS) = 0) =>
           /\ resp'.status = 200
           /\ resp'.token = 0
           /\ TASKS' = TASKS
           /\ NEXT_SHORT_ID' = NEXT_SHORT_ID
           /\ UNDO_BUFFERS' = UNDO_BUFFERS
    ]_vars

\* a chat delete-all met an empty store while a snapshot of an earlier
\* deletion was pending
C24_Witness ==
  /\ resp.op = "chat_delete_all"
  /\ resp.msg = "no_tasks"
  /\ resp.token = 0
  /\ TASKS = <<>>
  /\ DOMAIN UNDO_BUFFERS # {}

\* C25: with fair scheduling every request that holds the store lock releases
\* it and every request that has started, waiting for the lock or not, comes
\* to its answer: no request is blocked for ever, also where renumbering takes
\* the lock again inside a locked section and where a branch returns from
\* inside one.
C25_LockReleased ==
  \A p \in Threads :
    /\ (lockOwner = p) ~> (lockOwner # p)
    /\ (pc[p] # "idle") ~> (pc[p] = "idle")

\* a request waits for the lock while another holds it before the renumbering
\* of a chat delete by name
C25_Witness ==
  \E p, q \in Threads :
    /\ pc[p] \in {"dt_pop", "cdn_pop", "ct_append"}
    /\ pc[q] = "cdn_renumber"
    /\ lockOwner = q

====
